---- MODULE Spec2Model ----
(***************************************************************************)
(* The buffered ingestion pipeline of integrationos-api/src/server.rs:     *)
(* the event consumer task (bounded channel, batch buffer, size/idle flush,*)
(* spawned insert_many) and the metric consumer task (bounded channel,     *)
(* dual upsert under try_join!, optional segment AutoBatcher).             *)
(***************************************************************************)
EXTENDS Integers, Sequences, FiniteSets, TLC

\* ------------------------------------------------------------------ bounds
\* config.event_save_buffer_size: capacity of the event channel AND of a batch
event_save_buffer_size == 3
\* number of submit_event calls the producers make in one run
MaxEvents == 5

\* config.metric_save_channel_size: capacity of the metric channel
metric_save_channel_size == 1
\* number of submit_metric calls the producers make in one run
MaxMetrics == 2
\* number of idle timeouts of the metric consumer in one run
MaxMetricTimeouts == 1

Producers == {"p1", "p2"}

\* config.metric_system_id
metric_system_id == "system"
\* the metrics producers submit: <<ownership().client_id, incremented field>>
MetricInputs == {<<"c1", "unified">>, <<"c2", "passthrough">>}

\* ------------------------------------------------------------------ state
VARIABLES
    event_chan,     \* records queued in the event mpsc channel (FIFO)
    event_closed,   \* the event submission queue has been closed (shutdown)
    buffer,         \* the event consumer's Vec<Event>
    epc,            \* event consumer position: "recv" (in timeout(recv)) | "done"
    writes,         \* spawned insert_many tasks, in dispatch order: [batch, status]
    eppc,           \* per producer: "idle" | "blocked" (suspended in submit on a full queue)
    epending,       \* per producer: the record a blocked submit holds (0: none)
    nextEvent,      \* next record identity handed out at a submit call
    enqueued,       \* history: acknowledged records, in the order they entered the queue
    rejected,       \* history: records whose submit failed with queue_closed
    sawTimeout,     \* history: an idle timeout fired after the first submit call
    midTimeout,     \* history: a submit call happened after such a timeout
    atClose,        \* history: what the consumer held when it observed closure
    atShutdown      \* history: what the queue held when it was closed

evars == <<event_chan, event_closed, buffer, epc, writes, eppc, epending,
           nextEvent, enqueued, rejected, sawTimeout, midTimeout, atClose,
           atShutdown>>

VARIABLES
    metric_chan,    \* records queued in the metric mpsc channel (FIFO)
    metric_closed,  \* the metric submission queue has been closed (shutdown)
    batcher,        \* config.segment_write_key is set: Some(AutoBatcher)
    mpc,            \* metric consumer position: "recv" | "join" | "push" | "next" |
                    \*   "idle_flush" | "final_flush" | "done"
    metric,         \* the metric being processed (NoMetric between metrics)
    join,           \* the two futures under try_join!: "pending" | "ok" | "err" |
                    \*   "dropped" each (NoJoin between metrics)
    upserts,        \* history: update_one calls in issue order:
                    \*   [metric, dest, filter, doc, upsert]
    failed,         \* history: metrics whose try_join! returned Err
    fwd,            \* history: AutoBatcher calls in order: [op, metric]
    fwdWarned,      \* history: index in fwd of the first call that returned Err (0: none)
    mppc,           \* per producer: "idle" | "blocked"
    mpending,       \* per producer: the metric a blocked submit holds
    nextMetric,     \* next metric identity handed out at a submit call
    received,       \* history: metrics the consumer received, in order
    mrejected,      \* history: metrics whose submit failed with queue_closed
    mtimeouts       \* history: idle timeouts of the metric consumer

mvars == <<metric_chan, metric_closed, batcher, mpc, metric, join, upserts,
           failed, fwd, fwdWarned, mppc, mpending, nextMetric, received,
           mrejected, mtimeouts>>

vars == <<evars, mvars>>

NoClose == [seen |-> FALSE, buffered |-> <<>>, nwrites |-> 0]

EventInit ==
    /\ event_chan = <<>>
    /\ event_closed = FALSE
    /\ buffer = <<>>
    /\ epc = "recv"
    /\ writes = <<>>
    /\ eppc = [p \in Producers |-> "idle"]
    /\ epending = [p \in Producers |-> 0]
    /\ nextEvent = 1
    /\ enqueued = <<>>
    /\ rejected = {}
    /\ sawTimeout = FALSE
    /\ midTimeout = FALSE
    /\ atClose = NoClose
    /\ atShutdown = <<>>

\* ------------------------------------------------------- event channel
\* tokio::sync::mpsc::channel::<Event>(config.event_save_buffer_size)
EventChannelCapGrown == event_save_buffer_size + 1
EventChannelCap == event_save_buffer_size

\* the receiver is moved into the consumer task and dropped when the task ends
EventReceiverDropped == epc = "done"

\* submit fails with queue_closed once the queue is closed (or has no receiver)
EventSubmitFails == event_closed \/ EventReceiverDropped

EventHasSpace == Len(event_chan) < EventChannelCap

\* submit(record) of a producer that is not suspended
SubmitEvent(p) ==
    /\ eppc[p] = "idle"
    /\ nextEvent <= MaxEvents
    /\ nextEvent' = nextEvent + 1
    /\ midTimeout' = (midTimeout \/ sawTimeout)
    /\ IF EventSubmitFails
       THEN /\ rejected' = rejected \cup {nextEvent}
            /\ UNCHANGED <<event_chan, enqueued, eppc, epending>>
       ELSE IF EventHasSpace
       THEN /\ event_chan' = Append(event_chan, nextEvent)
            /\ enqueued' = Append(enqueued, nextEvent)
            /\ UNCHANGED <<rejected, eppc, epending>>
       ELSE /\ eppc' = [eppc EXCEPT ![p] = "blocked"]
            /\ epending' = [epending EXCEPT ![p] = nextEvent]
            /\ UNCHANGED <<event_chan, enqueued, rejected>>
    /\ UNCHANGED <<event_closed, buffer, epc, writes, sawTimeout, atClose>>
    /\ UNCHANGED atShutdown
    /\ UNCHANGED mvars

\* a suspended submit resumes: space was freed, or the queue was closed
ResumeEvent(p) ==
    /\ eppc[p] = "blocked"
    /\ EventSubmitFails \/ EventHasSpace
    /\ IF EventSubmitFails
       THEN /\ rejected' = rejected \cup {epending[p]}
            /\ UNCHANGED <<event_chan, enqueued>>
       ELSE /\ event_chan' = Append(event_chan, epending[p])
            /\ enqueued' = Append(enqueued, epending[p])
            /\ UNCHANGED rejected
    /\ eppc' = [eppc EXCEPT ![p] = "idle"]
    /\ epending' = [epending EXCEPT ![p] = 0]
    /\ UNCHANGED <<event_closed, buffer, epc, writes, nextEvent,
                   sawTimeout, midTimeout, atClose>>
    /\ UNCHANGED atShutdown
    /\ UNCHANGED mvars

\* process shutdown closes the submission queue
CloseEvents ==
    /\ ~event_closed
    /\ event_closed' = TRUE
    /\ atShutdown' = event_chan
    /\ UNCHANGED <<event_chan, buffer, epc, writes, eppc, epending, nextEvent,
                   enqueued, rejected, sawTimeout, midTimeout, atClose>>
    /\ UNCHANGED mvars

\* ------------------------------------------------------ event consumer
\* outcomes of timeout(event_save_timeout_secs, receiver.recv())
EventRecvSome == event_chan # <<>>
EventRecvNoneOnIdle == event_chan = <<>>
EventRecvNoneOnClose == event_closed
EventRecvNone == event_chan = <<>> /\ event_closed
EventRecvElapsedOnce == event_chan = <<>> /\ ~event_closed /\ ~sawTimeout
EventRecvElapsed == event_chan = <<>> /\ ~event_closed

\* the consumer loop is suspended in timeout(.., receiver.recv()) and nowhere else:
\* tokio::spawn hands the write to its own task and returns at once
EventLoopAwaitsWrites ==
    epc = "recv" /\ \A w \in 1..Len(writes) : writes[w].status # "pending"
EventLoopAtRecv == epc = "recv"

\* buffer.push(event)
BufferPushFront(buf, e) == <<e>> \o buf
BufferPush(buf, e) == Append(buf, e)

\* buffer.len() == config.event_save_buffer_size || (is_timeout && !buffer.is_empty())
ShouldFlushSizeOnly(buf, is_timeout) == Len(buf) = event_save_buffer_size
ShouldFlushTimeoutOnly(buf, is_timeout) == is_timeout /\ buf # <<>>
ShouldFlushOnAnyTimeout(buf, is_timeout) ==
    Len(buf) = event_save_buffer_size \/ is_timeout
ShouldFlush(buf, is_timeout) ==
    \/ Len(buf) = event_save_buffer_size
    \/ (is_timeout /\ buf # <<>>)

\* std::mem::replace(&mut buffer, Vec::with_capacity(..)) + tokio::spawn(insert_many(to_save))
FlushDecisionKeepsBuffer(buf, is_timeout) ==
    IF ShouldFlush(buf, is_timeout)
    THEN /\ writes' = Append(writes, [batch |-> buf, status |-> "pending"])
         /\ buffer' = buf
    ELSE /\ buffer' = buf
         /\ UNCHANGED writes
FlushDecision(buf, is_timeout) ==
    IF ShouldFlush(buf, is_timeout)
    THEN /\ writes' = Append(writes, [batch |-> buf, status |-> "pending"])
         /\ buffer' = <<>>
    ELSE /\ buffer' = buf
         /\ UNCHANGED writes

\* Ok(Some(event)): push, then the flush decision with is_timeout = false
EventReceive ==
    /\ EventLoopAtRecv
    /\ EventRecvSome
    /\ event_chan' = Tail(event_chan)
    /\ FlushDecision(BufferPush(buffer, Head(event_chan)), FALSE)
    /\ UNCHANGED <<event_closed, epc, eppc, epending, nextEvent, enqueued,
                   rejected, sawTimeout, midTimeout, atClose>>
    /\ UNCHANGED atShutdown
    /\ UNCHANGED mvars

\* Err(Elapsed): the flush decision with is_timeout = true
EventTimeout ==
    /\ EventLoopAtRecv
    /\ EventRecvElapsed
    /\ FlushDecision(buffer, TRUE)
    /\ sawTimeout' = (sawTimeout \/ nextEvent > 1)
    /\ UNCHANGED <<event_chan, event_closed, epc, eppc, epending, nextEvent,
                   enqueued, rejected, midTimeout, atClose>>
    /\ UNCHANGED atShutdown
    /\ UNCHANGED mvars

\* Ok(None): break; the task ends and drops buffer and receiver
EventBreak ==
    /\ EventLoopAtRecv
    /\ EventRecvNone
    /\ epc' = "done"
    /\ atClose' = [seen |-> TRUE, buffered |-> buffer, nwrites |-> Len(writes)]
    /\ buffer' = <<>>
    /\ UNCHANGED <<event_chan, event_closed, writes, eppc, epending, nextEvent,
                   enqueued, rejected, sawTimeout, midTimeout>>
    /\ UNCHANGED atShutdown
    /\ UNCHANGED mvars

\* if let Err(e) = events.insert_many(to_save).await { error!(..) }: the task ends
AfterInsertManyRetry(ws, i, res) ==
    IF res = "err"
    THEN Append([ws EXCEPT ![i].status = res],
                [batch |-> ws[i].batch, status |-> "pending"])
    ELSE [ws EXCEPT ![i].status = res]
AfterInsertMany(ws, i, res) == [ws EXCEPT ![i].status = res]

\* a spawned insert_many(to_save) returns
InsertManyReturns(i, res) ==
    /\ i \in 1..Len(writes)
    /\ writes[i].status = "pending"
    /\ writes' = AfterInsertMany(writes, i, res)
    /\ UNCHANGED <<event_chan, event_closed, buffer, epc, eppc, epending,
                   nextEvent, enqueued, rejected, sawTimeout, midTimeout, atClose>>
    /\ UNCHANGED atShutdown
    /\ UNCHANGED mvars

\* ------------------------------------------------------ metric channel
NoMetric == [id |-> 0, client_id |-> "", field |-> ""]
NoJoin == [client |-> "none", system |-> "none"]

MetricInit ==
    /\ metric_chan = <<>>
    /\ metric_closed = FALSE
    /\ batcher \in BOOLEAN
    /\ mpc = "recv"
    /\ metric = NoMetric
    /\ join = NoJoin
    /\ upserts = <<>>
    /\ failed = {}
    /\ fwd = <<>>
    /\ fwdWarned = 0
    /\ mppc = [p \in Producers |-> "idle"]
    /\ mpending = [p \in Producers |-> NoMetric]
    /\ nextMetric = 1
    /\ received = <<>>
    /\ mrejected = {}
    /\ mtimeouts = 0

\* tokio::sync::mpsc::channel::<Metric>(config.metric_save_channel_size)
MetricChannelCap == metric_save_channel_size

\* the receiver is moved into the consumer task and dropped when the task ends
MetricReceiverDropped == mpc = "done"

MetricSubmitFails == metric_closed \/ MetricReceiverDropped

MetricHasSpace == Len(metric_chan) < MetricChannelCap

\* submit(record) of a producer that is not suspended
SubmitMetric(p, in) ==
    /\ mppc[p] = "idle"
    /\ nextMetric <= MaxMetrics
    /\ nextMetric' = nextMetric + 1
    /\ LET m == [id |-> nextMetric, client_id |-> in[1], field |-> in[2]] IN
       IF MetricSubmitFails
       THEN /\ mrejected' = mrejected \cup {m.id}
            /\ UNCHANGED <<metric_chan, mppc, mpending>>
       ELSE IF MetricHasSpace
       THEN /\ metric_chan' = Append(metric_chan, m)
            /\ UNCHANGED <<mrejected, mppc, mpending>>
       ELSE /\ mppc' = [mppc EXCEPT ![p] = "blocked"]
            /\ mpending' = [mpending EXCEPT ![p] = m]
            /\ UNCHANGED <<metric_chan, mrejected>>
    /\ UNCHANGED <<metric_closed, batcher, mpc, metric, join, upserts, failed,
                   fwd, fwdWarned, received, mtimeouts>>
    /\ UNCHANGED evars

\* a suspended submit resumes: space was freed, or the queue was closed
ResumeMetric(p) ==
    /\ mppc[p] = "blocked"
    /\ MetricSubmitFails \/ MetricHasSpace
    /\ IF MetricSubmitFails
       THEN /\ mrejected' = mrejected \cup {mpending[p].id}
            /\ UNCHANGED metric_chan
       ELSE /\ metric_chan' = Append(metric_chan, mpending[p])
            /\ UNCHANGED mrejected
    /\ mppc' = [mppc EXCEPT ![p] = "idle"]
    /\ mpending' = [mpending EXCEPT ![p] = NoMetric]
    /\ UNCHANGED <<metric_closed, batcher, mpc, metric, join, upserts, failed,
                   fwd, fwdWarned, nextMetric, received, mtimeouts>>
    /\ UNCHANGED evars

\* process shutdown closes the submission queue
CloseMetrics ==
    /\ ~metric_closed
    /\ metric_closed' = TRUE
    /\ UNCHANGED <<metric_chan, batcher, mpc, metric, join, upserts, failed,
                   fwd, fwdWarned, mppc, mpending, nextMetric, received,
                   mrejected, mtimeouts>>
    /\ UNCHANGED evars

\* ------------------------------------------------------ metric consumer
\* outcomes of timeout(event_save_timeout_secs, receiver.recv())
MetricRecvSome == metric_chan # <<>>
MetricRecvNoneOnIdle == metric_chan = <<>>
MetricRecvNone == metric_chan = <<>> /\ metric_closed
MetricRecvElapsed == metric_chan = <<>> /\ ~metric_closed

\* metric.update_doc(): the field mutations the metric applies
UpdateDoc(m) == [inc |-> m.field, by |-> 1]

\* UpdateOptions::builder().upsert(true).build()
UpsertOption == TRUE

\* metrics.update_one({"clientId": client_id}, doc.clone()).with_options(options)
ClientUpsert(m) ==
    [metric |-> m.id, dest |-> "client", filter |-> m.client_id,
     doc |-> UpdateDoc(m), upsert |-> UpsertOption]

\* metrics.update_one({"clientId": metric_system_id}, doc).with_options(options)
SystemUpsertByClient(m) ==
    [metric |-> m.id, dest |-> "system", filter |-> m.client_id,
     doc |-> UpdateDoc(m), upsert |-> UpsertOption]
SystemUpsert(m) ==
    [metric |-> m.id, dest |-> "system", filter |-> metric_system_id,
     doc |-> UpdateDoc(m), upsert |-> UpsertOption]

\* Ok(Some(metric)): build both update_one calls and enter try_join!(client, system)
MetricReceive ==
    /\ mpc = "recv"
    /\ MetricRecvSome
    /\ metric_chan' = Tail(metric_chan)
    /\ metric' = Head(metric_chan)
    /\ received' = Append(received, Head(metric_chan))
    /\ upserts' = upserts \o <<ClientUpsert(Head(metric_chan)),
                               SystemUpsert(Head(metric_chan))>>
    /\ join' = [client |-> "pending", system |-> "pending"]
    /\ mpc' = "join"
    /\ UNCHANGED <<metric_closed, batcher, fwd, fwdWarned, failed, mppc, mpending,
                   nextMetric, mrejected, mtimeouts>>
    /\ UNCHANGED evars

\* one of the two update_one futures completes while try_join! is pending
UpsertReturns(d, res) ==
    /\ mpc = "join"
    /\ join[d] = "pending"
    /\ join' = [join EXCEPT ![d] = res]
    /\ UNCHANGED <<metric_chan, metric_closed, batcher, mpc, metric, upserts, fwd,
                   fwdWarned, failed, mppc, mpending, nextMetric, received,
                   mrejected, mtimeouts>>
    /\ UNCHANGED evars

\* try_join! is ready: every branch returned Ok, or some branch returned Err
TryJoinReady(j) ==
    \/ \A d \in DOMAIN j : j[d] = "ok"
    \/ \E d \in DOMAIN j : j[d] = "err"

TryJoinIsErr(j) == \E d \in DOMAIN j : j[d] = "err"

\* after if let Err(e) = try_join!(..) { error!(..) }: on to the push, if any
AfterJoinFatal(b, is_err) ==
    IF is_err THEN "done" ELSE IF b THEN "push" ELSE "next"
AfterJoinPushOnOk(b, is_err) == IF b /\ ~is_err THEN "push" ELSE "next"
AfterJoin(b, is_err) == IF b THEN "push" ELSE "next"

\* try_join! returns; on Err the branch still pending is dropped with the macro's
\* future; "Could not upsert metric" is logged on Err
MetricJoinReturns ==
    /\ mpc = "join"
    /\ TryJoinReady(join)
    /\ join' = [d \in DOMAIN join |->
                  IF join[d] = "pending" THEN "dropped" ELSE join[d]]
    /\ failed' = IF TryJoinIsErr(join) THEN failed \cup {metric.id} ELSE failed
    /\ mpc' = AfterJoin(batcher, TryJoinIsErr(join))
    /\ UNCHANGED <<metric_chan, metric_closed, batcher, metric, upserts, fwd,
                   fwdWarned, mppc, mpending, nextMetric, received, mrejected,
                   mtimeouts>>
    /\ UNCHANGED evars

\* the first forwarder call that returned Err, if any
Warned(w, res) == IF res = "err" /\ w = 0 THEN Len(fwd) + 1 ELSE w

\* batcher.push(metric.segment_track()).await: Ok, or Err (message too large)
MetricPush(res) ==
    /\ mpc = "push"
    /\ fwd' = Append(fwd, [op |-> "push", metric |-> metric.id])
    /\ fwdWarned' = Warned(fwdWarned, res)
    /\ mpc' = "next"
    /\ UNCHANGED <<metric_chan, metric_closed, batcher, metric, upserts, join,
                   failed, mppc, mpending, nextMetric, received, mrejected,
                   mtimeouts>>
    /\ UNCHANGED evars

\* end of the Ok(Some(metric)) branch: metric, doc and both futures go out of scope
MetricNextIteration ==
    /\ mpc = "next"
    /\ metric' = NoMetric
    /\ join' = NoJoin
    /\ mpc' = "recv"
    /\ UNCHANGED <<metric_chan, metric_closed, batcher, upserts, fwd, fwdWarned,
                   failed, mppc, mpending, nextMetric, received, mrejected,
                   mtimeouts>>
    /\ UNCHANGED evars

\* the timeout branch: if let Some(ref mut batcher) = batcher { batcher.flush().await }
AfterTimeoutNoFlush(b) == "recv"
AfterTimeout(b) == IF b THEN "idle_flush" ELSE "recv"

\* Err(Elapsed): with a batcher, go on to batcher.flush()
MetricTimeout ==
    /\ mpc = "recv"
    /\ MetricRecvElapsed
    /\ mtimeouts < MaxMetricTimeouts
    /\ mtimeouts' = mtimeouts + 1
    /\ mpc' = AfterTimeout(batcher)
    /\ UNCHANGED <<metric_chan, metric_closed, batcher, metric, upserts, join,
                   failed, fwd, fwdWarned, mppc, mpending, nextMetric, received,
                   mrejected>>
    /\ UNCHANGED evars

\* after the loop: if let Some(ref mut batcher) = batcher { batcher.flush().await }
AfterLoopNoFlush(b) == "done"
AfterLoopAlwaysFlush(b) == "final_flush"
AfterLoop(b) == IF b THEN "final_flush" ELSE "done"

\* Ok(None): break; with a batcher, go on to the flush after the loop
MetricBreak ==
    /\ mpc = "recv"
    /\ MetricRecvNone
    /\ mpc' = AfterLoop(batcher)
    /\ UNCHANGED <<metric_chan, metric_closed, batcher, metric, upserts, join,
                   failed, fwd, fwdWarned, mppc, mpending, nextMetric, received,
                   mrejected, mtimeouts>>
    /\ UNCHANGED evars

\* where batcher.flush().await returns to: the loop, or the end of the task
AfterFlush(pc) == IF pc = "final_flush" THEN "done" ELSE "recv"

\* batcher.flush().await: Ok, or Err (logged as a warning)
MetricFlush(res) ==
    /\ mpc \in {"idle_flush", "final_flush"}
    /\ fwd' = Append(fwd, [op |-> "flush", metric |-> 0])
    /\ fwdWarned' = Warned(fwdWarned, res)
    /\ mpc' = AfterFlush(mpc)
    /\ UNCHANGED <<metric_chan, metric_closed, batcher, metric, upserts, join,
                   failed, mppc, mpending, nextMetric, received, mrejected,
                   mtimeouts>>
    /\ UNCHANGED evars

\* ------------------------------------------------------ specifications
Init == EventInit /\ MetricInit

EventNext ==
    \/ \E p \in Producers : SubmitEvent(p)
    \/ \E p \in Producers : ResumeEvent(p)
    \/ CloseEvents
    \/ EventReceive
    \/ EventTimeout
    \/ EventBreak
    \/ \E i \in 1..MaxEvents, res \in {"ok", "err"} : InsertManyReturns(i, res)

MetricNext ==
    \/ \E p \in Producers, in \in MetricInputs : SubmitMetric(p, in)
    \/ \E p \in Producers : ResumeMetric(p)
    \/ CloseMetrics
    \/ MetricReceive
    \/ \E d \in {"client", "system"}, res \in {"ok", "err"} : UpsertReturns(d, res)
    \/ MetricJoinReturns
    \/ \E res \in {"ok", "err"} : MetricPush(res)
    \/ MetricNextIteration
    \/ MetricTimeout
    \/ MetricBreak
    \/ \E res \in {"ok", "err"} : MetricFlush(res)

\* the event pipeline alone
EventSpec == Init /\ [][EventNext]_vars

\* the metric pipeline alone
MetricSpec == Init /\ [][MetricNext]_vars

\* the event pipeline with its consumer task scheduled: the runtime polls the
\* spawned task whenever recv is ready or its timer has fired
EventLiveSpec ==
    /\ EventSpec
    /\ WF_vars(EventReceive)
    /\ WF_vars(EventTimeout)
    /\ WF_vars(EventBreak)

\* The two consumer tasks share no state (separate channels, separate tasks at
\* server.rs:205 and server.rs:254), so a property of one pipeline's variables is
\* decided with the other pipeline not started.
EventNotStarted == nextEvent = 1 /\ ~event_closed /\ epc = "recv"
MetricNotStarted == nextMetric = 1 /\ ~metric_closed /\ mtimeouts = 0 /\ mpc = "recv"

Next ==
    \/ MetricNotStarted /\ \E p \in Producers : SubmitEvent(p)
    \/ MetricNotStarted /\ \E p \in Producers : ResumeEvent(p)
    \/ MetricNotStarted /\ CloseEvents
    \/ MetricNotStarted /\ EventReceive
    \/ MetricNotStarted /\ EventTimeout
    \/ MetricNotStarted /\ EventBreak
    \/ MetricNotStarted /\ \E i \in 1..MaxEvents, res \in {"ok", "err"} :
          InsertManyReturns(i, res)
    \/ EventNotStarted /\ \E p \in Producers, in \in MetricInputs : SubmitMetric(p, in)
    \/ EventNotStarted /\ \E p \in Producers : ResumeMetric(p)
    \/ EventNotStarted /\ CloseMetrics
    \/ EventNotStarted /\ MetricReceive
    \/ EventNotStarted /\ \E d \in {"client", "system"}, res \in {"ok", "err"} :
          UpsertReturns(d, res)
    \/ EventNotStarted /\ MetricJoinReturns
    \/ EventNotStarted /\ \E res \in {"ok", "err"} : MetricPush(res)
    \/ EventNotStarted /\ MetricNextIteration
    \/ EventNotStarted /\ MetricTimeout
    \/ EventNotStarted /\ MetricBreak
    \/ EventNotStarted /\ \E res \in {"ok", "err"} : MetricFlush(res)

\* either pipeline of Server::init
Spec == Init /\ [][Next]_vars

\* either pipeline with its consumer task scheduled and with every pending
\* update_one, push and flush call returning
LiveSpec ==
    /\ Spec
    /\ WF_vars(EventReceive)
    /\ WF_vars(EventBreak)
    /\ WF_vars(MetricReceive)
    /\ WF_vars(\E d \in {"client", "system"}, res \in {"ok", "err"} : UpsertReturns(d, res))
    /\ WF_vars(MetricJoinReturns)
    /\ WF_vars(\E res \in {"ok", "err"} : MetricPush(res))
    /\ WF_vars(MetricNextIteration)
    /\ WF_vars(MetricBreak)
    /\ WF_vars(\E res \in {"ok", "err"} : MetricFlush(res))

\* ------------------------------------------------------ helpers of the claims
Ceil(n, c) == (n + c - 1) \div c

Range(s) == {s[i] : i \in 1..Len(s)}

\* position of a record in the order of enqueueing
Pos(s, x) == CHOOSE i \in 1..Len(s) : s[i] = x

Written == UNION {Range(writes[w].batch) : w \in 1..Len(writes)}

NumFlush(log) == Cardinality({i \in 1..Len(log) : log[i].op = "flush"})

\* ------------------------------------------------------ claims

\* C1: when the consumer observes closure while it holds M > 0 buffered records,
\* it issues exactly one more write call, carrying exactly those M records,
\* before it terminates.
C1_FinalFlushOnClose ==
    (atClose.seen /\ Len(atClose.buffered) > 0) =>
        /\ Len(writes) = atClose.nwrites + 1
        /\ writes[Len(writes)].batch = atClose.buffered

\* C2: once the consumer has terminated, every record whose submit was
\* acknowledged has been handed to the writer inside some write call.
C2_NoAcceptedRecordDropped ==
    epc = "done" => Range(enqueued) \subseteq Written

\* C3: in a finished run of N acknowledged records where no idle timeout fired
\* between submissions, ceil(N / C) write calls were issued, each of exactly C
\* records except possibly the last.
C3_WriteCountIsCeil ==
    (epc = "done" /\ ~midTimeout) =>
        /\ Len(writes) = Ceil(Len(enqueued), event_save_buffer_size)
        /\ \A w \in 1..Len(writes) :
              \/ Len(writes[w].batch) = event_save_buffer_size
              \/ w = Len(writes) /\ Len(writes[w].batch) \in 1..event_save_buffer_size

\* C4: a receive timeout with K buffered records, 0 < K < C, dispatches exactly one
\* write call with exactly those K records and leaves the buffer empty, so that
\* any record received later starts a new batch.
C4_IdleFlush ==
    [][(EventTimeout /\ buffer # <<>> /\ Len(buffer) < event_save_buffer_size) =>
          /\ writes' = Append(writes, [batch |-> buffer, status |-> "pending"])
          /\ buffer' = <<>>
          /\ event_chan' = event_chan]_vars

\* the scenario of C4: e1, e2, idle timeout, e3 yields [e1, e2] then [e3]
C4_Witness ==
    /\ Len(writes) = 2
    /\ writes[1].batch = <<1, 2>>
    /\ writes[2].batch = <<3>>
    /\ Len(writes[1].batch) < event_save_buffer_size

\* C5: inside every dispatched batch records stand in the order in which they
\* were enqueued.
C5_BatchOrder ==
    \A w \in 1..Len(writes) :
        \A i, j \in 1..Len(writes[w].batch) :
            i < j => Pos(enqueued, writes[w].batch[i]) < Pos(enqueued, writes[w].batch[j])

\* a batch whose records were enqueued in another order than they were handed out
C5_Witness ==
    \E w \in 1..Len(writes) :
        /\ Len(writes[w].batch) >= 2
        /\ writes[w].batch[1] > writes[w].batch[2]

\* C6: every received metric has exactly two update_one calls, the first filtered
\* by its own client id, the second by the system id, both with upsert enabled and
\* both with the update document of that metric.
C6_DualUpsert ==
    /\ Len(upserts) = 2 * Len(received)
    /\ \A k \in 1..Len(received) :
          LET m == received[k]
              c == upserts[2 * k - 1]
              y == upserts[2 * k]
          IN /\ c.metric = m.id /\ y.metric = m.id
             /\ c.filter = m.client_id
             /\ y.filter = metric_system_id
             /\ c.upsert /\ y.upsert
             /\ c.doc = y.doc
             /\ c.doc = [inc |-> m.field, by |-> 1]

\* two metrics of different clients were received
C6_Witness ==
    /\ Len(received) >= 2
    /\ received[1].client_id # received[2].client_id
    /\ Len(upserts) = 4

\* C7: when one of the two upserts fails, the other one still runs to its own
\* completion: after try_join! returned, neither call was dropped unfinished.
C7_OtherUpsertCompletes ==
    mpc \in {"push", "next"} => \A d \in DOMAIN join : join[d] \in {"ok", "err"}

\* C8: with the forwarder configured, the consumer terminates only after one
\* flush beyond the idle flushes, issued after every push.
C8_FinalFlush ==
    batcher =>
        IF mpc = "done"
        THEN /\ NumFlush(fwd) = mtimeouts + 1
             /\ fwd[Len(fwd)].op = "flush"
        ELSE NumFlush(fwd) <= mtimeouts

\* the consumer terminated after a metric was pushed
C8_Witness ==
    /\ batcher
    /\ mpc = "done"
    /\ \E i \in 1..Len(fwd) : fwd[i].op = "push"

\* C9: neither queue ever holds more than its capacity, and a submit on a full
\* queue suspends the producer, holding its record, until there is space (the
\* record is enqueued) or the queue is closed (the submit fails).
C9_Bounded ==
    /\ [](Len(event_chan) <= event_save_buffer_size)
    /\ [](Len(metric_chan) <= metric_save_channel_size)
    /\ [][\A p \in Producers :
            /\ (eppc[p] = "idle" /\ nextEvent' # nextEvent /\ ~event_closed
                  /\ Len(event_chan) >= event_save_buffer_size /\ eppc'[p] # eppc[p]) =>
                  (event_chan' = event_chan /\ epending'[p] = nextEvent
                     /\ rejected' = rejected)
            /\ eppc[p] = "blocked" =>
                  \/ eppc'[p] = "blocked" /\ epending'[p] = epending[p]
                  \/ /\ Len(event_chan) < event_save_buffer_size
                     /\ event_chan' = Append(event_chan, epending[p])
                  \/ event_closed /\ epending[p] \in rejected'
            /\ (mppc[p] = "idle" /\ nextMetric' # nextMetric /\ ~metric_closed
                  /\ Len(metric_chan) >= metric_save_channel_size /\ mppc'[p] # mppc[p]) =>
                  (metric_chan' = metric_chan /\ mpending'[p].id = nextMetric
                     /\ mrejected' = mrejected)
            /\ mppc[p] = "blocked" =>
                  \/ mppc'[p] = "blocked" /\ mpending'[p] = mpending[p]
                  \/ /\ Len(metric_chan) < metric_save_channel_size
                     /\ metric_chan' = Append(metric_chan, mpending[p])
                  \/ metric_closed /\ mpending[p].id \in mrejected']_vars
    /\ [][(nextEvent' # nextEvent /\ ~event_closed) =>
            \/ nextEvent \in Range(event_chan')
            \/ \E p \in Producers : eppc'[p] = "blocked" /\ epending'[p] = nextEvent]_vars
    /\ [][(nextMetric' # nextMetric /\ ~metric_closed) =>
            \/ \E i \in 1..Len(metric_chan') : metric_chan'[i].id = nextMetric
            \/ \E p \in Producers : mppc'[p] = "blocked" /\ mpending'[p].id = nextMetric]_vars

\* a producer is suspended on a full, open event queue
C9_Witness ==
    /\ \E p \in Producers : eppc[p] = "blocked"
    /\ Len(event_chan) = event_save_buffer_size
    /\ ~event_closed

\* C10: a closed queue stays closed and takes no further record: every submit
\* after closure fails with queue_closed, and a submit fails with queue_closed
\* only once the queue has been closed.
C10_ClosedIsTerminal ==
    /\ [](rejected # {} => event_closed)
    /\ [](mrejected # {} => metric_closed)
    /\ [][event_closed =>
            /\ event_closed'
            /\ enqueued' = enqueued
            /\ (event_chan' = event_chan
                  \/ (event_chan # <<>> /\ event_chan' = Tail(event_chan)))
            /\ (nextEvent' # nextEvent => nextEvent \in rejected')]_vars
    /\ [][metric_closed =>
            /\ metric_closed'
            /\ (metric_chan' = metric_chan
                  \/ (metric_chan # <<>> /\ metric_chan' = Tail(metric_chan)))
            /\ (nextMetric' # nextMetric => nextMetric \in mrejected')]_vars

\* submits failed after closure, one of them of a producer that was suspended
C10_Witness ==
    /\ event_closed
    /\ Len(enqueued) >= event_save_buffer_size
    /\ Cardinality(rejected) >= 2

\* ------------------------------------------------------ helpers of C11..C20
RECURSIVE FlatBatches(_)
FlatBatches(ws) ==
    IF ws = <<>> THEN <<>>
    ELSE FlatBatches(SubSeq(ws, 1, Len(ws) - 1)) \o ws[Len(ws)].batch

\* the records the event consumer has received so far, in the order of receipt
Delivered == FlatBatches(writes) \o buffer \o atClose.buffered

NoDup(q) == \A i, j \in 1..Len(q) : i < j => q[i] # q[j]

IsPrefix(a, b) == Len(a) <= Len(b) /\ SubSeq(b, 1, Len(a)) = a

\* the metrics pushed to the forwarder, in order
Pushed ==
    LET ps == SelectSeq(fwd, LAMBDA e : e.op = "push")
    IN [i \in 1..Len(ps) |-> ps[i].metric]

ReceivedIds(k) == [i \in 1..k |-> received[i].id]

\* C11: the records queued at closure are all delivered, in order, before the
\* consumer observes closure: it leaves its loop only with the queue closed and
\* empty, and what it received followed by what is queued is what was enqueued.
C11_DrainBeforeClosure ==
    /\ [](Delivered \o event_chan = enqueued)
    /\ [](epc = "done" => event_closed /\ event_chan = <<>> /\ Delivered = enqueued)
    /\ [](mpc \in {"final_flush", "done"} => metric_closed /\ metric_chan = <<>>)
    /\ [][received' # received =>
            /\ metric_chan # <<>>
            /\ received' = Append(received, Head(metric_chan))
            /\ metric_chan' = Tail(metric_chan)]_vars
    /\ [][metric_chan' # metric_chan =>
            \/ received' # received
            \/ /\ Len(metric_chan') = Len(metric_chan) + 1
               /\ SubSeq(metric_chan', 1, Len(metric_chan)) = metric_chan]_vars

\* the consumer has terminated after receiving the records that were queued when
\* the queue was closed
C11_Witness ==
    /\ epc = "done"
    /\ Len(atShutdown) >= 2
    /\ Delivered = enqueued

\* C12: whenever the event consumer is at the start of a loop iteration, its
\* buffer holds at most event_save_buffer_size records.
C12_BufferBounded ==
    epc = "recv" => Len(buffer) <= event_save_buffer_size

\* the buffer is one short of a batch again after a batch was dispatched
C12_Witness ==
    /\ Len(writes) >= 1
    /\ Len(buffer) = event_save_buffer_size - 1

\* C13: the consumer receives every record at most once and in the order of
\* enqueueing, whatever timeouts interleave, and no record stands twice in the
\* write calls: nothing is duplicated, reordered or sent again after a failure.
C13_NoDuplicateNoRetry ==
    /\ NoDup(enqueued)
    /\ NoDup(Delivered)
    /\ IsPrefix(Delivered, enqueued)
    /\ \A w \in 1..Len(writes) : writes[w].batch # <<>> =>
          \A v \in 1..Len(writes) : v # w => writes[v].batch # writes[w].batch

\* a write failed, timeouts interleaved with submissions, and later batches exist
C13_Witness ==
    /\ Len(writes) >= 2
    /\ writes[1].status = "err"
    /\ midTimeout

\* C14: the event consumer never waits for a write: with writes in flight it can
\* still receive a queued record or take its idle timeout, and every write in
\* flight can return, whichever was dispatched first.
C14_ConsumerNeverWaitsForWrite ==
    /\ (epc = "recv" /\ event_chan # <<>>) => ENABLED EventReceive
    /\ (epc = "recv" /\ event_chan = <<>> /\ ~event_closed) => ENABLED EventTimeout
    /\ \A i \in 1..Len(writes) :
          writes[i].status = "pending" =>
              ENABLED InsertManyReturns(i, "ok") /\ ENABLED InsertManyReturns(i, "err")

\* batch 2 was dispatched and has returned while batch 1 is still in flight, and
\* the consumer is buffering again
C14_Witness ==
    /\ Len(writes) >= 2
    /\ writes[1].status = "pending"
    /\ writes[2].status \in {"ok", "err"}
    /\ buffer # <<>>

\* C15: while the two upserts of one metric are pending, the metric consumer can
\* still receive the next metric from the queue.
C15_MetricIntakeNotBlocked ==
    (mpc = "join" /\ metric_chan # <<>>) => ENABLED MetricReceive

\* C16: a flush hands over exactly the buffer of the flush decision and leaves an
\* empty buffer, and a dispatched batch never changes afterwards.
C16_FlushSwapsBuffer ==
    [][/\ Len(writes') > Len(writes) =>
            /\ Len(writes') = Len(writes) + 1
            /\ buffer' = <<>>
            /\ writes'[Len(writes')].batch =
                  IF event_chan' # event_chan
                  THEN Append(buffer, Head(event_chan))
                  ELSE buffer
       /\ Len(writes') >= Len(writes)
       /\ \A w \in 1..Len(writes) : writes'[w].batch = writes[w].batch]_vars

\* a record received after a full batch was dispatched stands alone in the buffer
C16_Witness ==
    /\ Len(writes) = 1
    /\ Len(writes[1].batch) = event_save_buffer_size
    /\ Len(buffer) = 1
    /\ buffer[1] \notin Range(writes[1].batch)

\* C17: a receive timeout with an empty buffer dispatches nothing and changes
\* nothing of the pipeline, and every write call carries 1 to C records.
C17_NoEmptyBatch ==
    /\ [](\A w \in 1..Len(writes) :
            Len(writes[w].batch) \in 1..event_save_buffer_size)
    /\ [][(EventTimeout /\ buffer = <<>>) =>
            UNCHANGED <<event_chan, event_closed, buffer, epc, writes, eppc,
                        epending, nextEvent>>]_vars

\* an idle timeout fired after the only batch, a full one, had left the buffer empty
C17_Witness ==
    /\ sawTimeout
    /\ Len(writes) = 1
    /\ Len(writes[1].batch) = event_save_buffer_size
    /\ buffer = <<>>
    /\ nextEvent = event_save_buffer_size + 1

\* C18: a write failure is not fatal and stays inside the consumer: the return of
\* an insert_many changes only that write's status, a failed try_join! only moves
\* the metric consumer on (no call is issued again), and a consumer ends only
\* after its queue was closed.
C18_WriteFailureNotFatal ==
    /\ [][(\E w \in 1..Len(writes) : writes'[w].status # writes[w].status) =>
            /\ Len(writes') = Len(writes)
            /\ UNCHANGED <<event_chan, event_closed, buffer, epc, eppc, epending,
                           nextEvent, enqueued, rejected>>]_vars
    /\ [][failed' # failed =>
            /\ mpc' \in {"push", "next"}
            /\ upserts' = upserts
            /\ UNCHANGED <<metric_chan, metric_closed, mppc, mpending, nextMetric,
                           mrejected>>]_vars
    /\ [](epc = "done" => event_closed)
    /\ [](mpc = "done" => metric_closed)
    /\ [](Cardinality({i \in 1..Len(upserts) : upserts[i].metric \in failed})
            = 2 * Cardinality(failed))

\* the upsert of the first metric failed and the second metric was upserted after it
C18_Witness ==
    /\ failed = {1}
    /\ Len(received) = 2
    /\ mpc = "next"
    /\ \A d \in DOMAIN join : join[d] = "ok"

\* C19: with the forwarder configured, every receive timeout of the metric
\* consumer is followed by exactly one flush and by no upsert.
C19_IdleFlush ==
    /\ [][(MetricTimeout /\ batcher) =>
            mpc' = "idle_flush" /\ upserts' = upserts /\ fwd' = fwd]_vars
    /\ [][(mpc = "idle_flush" /\ mpc' # mpc) =>
            /\ fwd' = Append(fwd, [op |-> "flush", metric |-> 0])
            /\ upserts' = upserts
            /\ mpc' = "recv"]_vars
    /\ [](batcher =>
            CASE mpc = "idle_flush" -> NumFlush(fwd) = mtimeouts - 1
              [] mpc = "done" -> NumFlush(fwd) = mtimeouts + 1
              [] OTHER -> NumFlush(fwd) = mtimeouts)

\* a timeout flushed the forwarder although no metric was ever received
C19_Witness ==
    /\ batcher
    /\ mtimeouts = 1
    /\ mpc = "recv"
    /\ Len(fwd) = 1 /\ fwd[1].op = "flush"
    /\ upserts = <<>>

\* C20: with the forwarder configured, the pushes are exactly the received
\* metrics, one each and in order, each issued once try_join! has returned,
\* whether it failed or not; a forwarder error neither ends the consumer nor
\* keeps it from receiving.
C20_OnePushPerMetric ==
    batcher =>
        /\ Pushed = ReceivedIds(IF mpc \in {"join", "push"}
                                THEN Len(received) - 1 ELSE Len(received))
        /\ mpc = "push" => \A d \in DOMAIN join : join[d] \in {"ok", "err", "dropped"}
        /\ mpc = "done" => metric_closed
        /\ (fwdWarned # 0 /\ mpc = "recv" /\ metric_chan # <<>>) => ENABLED MetricReceive

\* the first metric's upsert failed, its push was issued and failed, and the
\* second metric was upserted and pushed all the same
C20_Witness ==
    /\ batcher
    /\ 1 \in failed
    /\ fwdWarned = 1
    /\ Len(fwd) >= 2 /\ fwd[1].op = "push"
    /\ Pushed = <<1, 2>>
    /\ Len(upserts) = 4

\* C21: without a forwarder the metric consumer never issues a push or a flush,
\* neither after a metric, nor on an idle timeout, nor at shutdown, and never
\* stands at one; every received metric still has its two update_one calls,
\* client first and system second.
C21_NoForwarderNoOps ==
    ~batcher =>
        /\ fwd = <<>>
        /\ fwdWarned = 0
        /\ mpc \in {"recv", "join", "next", "done"}
        /\ Len(upserts) = 2 * Len(received)
        /\ \A k \in 1..Len(received) :
              /\ upserts[2 * k - 1].dest = "client"
              /\ upserts[2 * k - 1].filter = received[k].client_id
              /\ upserts[2 * k].dest = "system"
              /\ upserts[2 * k].filter = metric_system_id
              /\ \A i \in {2 * k - 1, 2 * k} :
                    /\ upserts[i].metric = received[k].id
                    /\ upserts[i].upsert
                    /\ upserts[i].doc.inc = received[k].field

\* without a forwarder the consumer received two metrics, timed out once and
\* terminated
C21_Witness ==
    /\ ~batcher
    /\ mpc = "done"
    /\ mtimeouts >= 1
    /\ Len(received) = 2
    /\ Len(upserts) = 4

\* the consumer holds records in its buffer while the queue is open
BufferWaiting == epc = "recv" /\ buffer # <<>> /\ ~event_closed

\* C22: with a non-empty buffer and an open queue the consumer stands in
\* timeout(recv), where a receive or the expiry of the idle interval is always
\* possible; its next step is the receipt of another record or the dispatch of
\* the whole buffer as one write; and that step does come unless the queue is
\* closed first.
C22_IdleIntervalBoundsWait ==
    /\ [](BufferWaiting => ENABLED EventReceive \/ ENABLED EventTimeout)
    /\ [][(BufferWaiting /\ ~event_closed' /\ <<buffer, writes, epc>>' # <<buffer, writes, epc>>) =>
            \/ /\ event_chan # <<>>
               /\ event_chan' = Tail(event_chan)
               /\ Head(event_chan) \in (Range(buffer) \cup Written)'
            \/ /\ event_chan' = event_chan
               /\ Len(writes') = Len(writes) + 1
               /\ writes'[Len(writes')].batch = buffer
               /\ buffer' = <<>>
            \/ /\ UNCHANGED <<event_chan, buffer, epc>>
               /\ Len(writes') = Len(writes)]_vars
    /\ \A k \in 1..(event_save_buffer_size - 1) :
          (BufferWaiting /\ Len(buffer) = k) ~> (event_closed \/ Len(buffer) # k)

\* two idle flushes with the queue still open: one record, then two more
C22_Witness ==
    /\ ~event_closed
    /\ epc = "recv"
    /\ Len(writes) = 2
    /\ Len(writes[1].batch) = 1
    /\ Len(writes[2].batch) = 2
    /\ buffer = <<>>

\* C23: once its queue is closed each consumer eventually stands at its end with
\* the queue drained, and a consumer stands at its end only if its queue was
\* closed and is empty, every record queued at shutdown having been received,
\* whatever writes, pushes or flushes failed.
C23_TerminatesOnlyAfterShutdown ==
    /\ event_closed ~> (epc = "done" /\ event_chan = <<>>)
    /\ metric_closed ~> (mpc = "done" /\ metric_chan = <<>>)
    /\ [](epc = "done" =>
            /\ event_closed
            /\ event_chan = <<>>
            /\ Range(atShutdown) \subseteq Range(Delivered))
    /\ [](mpc = "done" =>
            /\ metric_closed
            /\ metric_chan = <<>>
            /\ \A id \in 1..(nextMetric - 1) :
                  \/ \E k \in 1..Len(received) : received[k].id = id
                  \/ id \in mrejected
                  \/ \E p \in Producers : mpending[p].id = id)

\* the metric consumer ended after an upsert and a forwarder call had failed
C23_Witness ==
    /\ mpc = "done"
    /\ metric_closed
    /\ failed # {}
    /\ fwdWarned # 0
    /\ Len(received) >= 2

====
